---- MODULE Spec2Model ----
(***************************************************************************)
(* Model of dlog.py's stream_logs: the multi-line log filter that reads    *)
(* the remote log line by line, groups lines into entries by a leading     *)
(* date, and prints the entries that match a keyword, highlighted.         *)
(*                                                                         *)
(* A string is a sequence of one-character strings, so that searching,     *)
(* escaping and substitution are computed character by character.          *)
(***************************************************************************)
EXTENDS Integers, Sequences, FiniteSets, TLC

VARIABLES
    keyword,                \* the keyword argument; <<>> stands for None and ""
    ignore_case,            \* the -i flag
    previous_line,          \* the buffered header line, <<>> when none
    previous_line_matches,  \* the sticky match flag
    line,                   \* the line of the current iteration
    is_new_log_entry,       \* whether `line` starts with a date
    current_line_matches,   \* result of the match test on `line`
    highlighted_line,       \* last result of re.sub
    input,                  \* history: the lines readline has returned
    output,                 \* the lines printed by the filter, in order
    origin,                 \* history: origin[k] = index in input of output[k]
    previous_idx,           \* history: index in input of previous_line, 0 if none
    notices,                \* messages other than log lines (exit notice, stderr)
    pc,                     \* where main and stream_logs are
    services,               \* the names of the services of the remote swarm
    partial_name,           \* the service argument of main
    ssh_outcome,            \* how the listing command ended, "none" before it ran
    result,                 \* the output of the listing command
    full_service_name,      \* what find_service_name returned, <<>> before
    exit_status,            \* the status the process exited with, NoExit while it runs
    ssh_calls               \* history: the number of ssh subprocesses started

vars == <<keyword, ignore_case, previous_line, previous_line_matches, line,
          is_new_log_entry, current_line_matches, highlighted_line, input, output, origin,
          previous_idx, notices, pc, services, partial_name, ssh_outcome, result,
          full_service_name, exit_status, ssh_calls>>

\* the state of main's own variables
mainvars == <<services, partial_name, ssh_outcome, result, full_service_name,
              exit_status, ssh_calls>>

-----------------------------------------------------------------------------
(* Bounds *)

MaxLines == 3      \* lines read from the stream in one run
MaxKwLen == 2      \* keyword length, function-level specification
MaxLineLen == 3    \* line length, function-level specification
MaxClsLen == 10    \* line length, classification
MaxServices == 2   \* services on the remote swarm

-----------------------------------------------------------------------------
(* Characters and strings *)

COLOR_YELLOW == <<"ESC", "[", "9", "3", "m">>
COLOR_RESET == <<"ESC", "[", "0", "m">>

Digits == {"0", "1", "2", "3", "4", "5", "6", "7", "8", "9"}

\* str.lower() restricted to the letters of the model's alphabet
Lower(c) == IF c = "A" THEN "a" ELSE IF c = "B" THEN "b" ELSE c

\* comparison of a pattern literal with a subject character under the flags
CharEq(a, b, ic) == IF ic THEN Lower(a) = Lower(b) ELSE a = b

\* the characters re.escape puts a backslash before (those of the alphabet)
SpecialChars == {"(", ")", ".", "^", "\\", "-", " ", "\n", "[", "$", "*", "+", "?", "|"}

RECURSIVE re_escape(_)
re_escape(s) ==
    IF s = <<>> THEN <<>>
    ELSE (IF Head(s) \in SpecialChars THEN <<"\\", Head(s)>> ELSE <<Head(s)>>)
         \o re_escape(Tail(s))

-----------------------------------------------------------------------------
(* The regular-expression engine, for the pattern syntax the keywords and  *)
(* the escaped keywords of the model use: literals, backslash escapes,     *)
(* `.`, `^` and groups.                                                    *)

\* nesting depth after scanning pat from k; -1 when a `)` has no `(`,
\* -2 when the pattern ends in a lone backslash
RECURSIVE ParenDepth(_, _, _)
ParenDepth(pat, k, d) ==
    IF k > Len(pat) THEN d
    ELSE IF pat[k] = "\\" THEN
            (IF k = Len(pat) THEN -2 ELSE ParenDepth(pat, k + 2, d))
    ELSE IF pat[k] = "(" THEN ParenDepth(pat, k + 1, d + 1)
    ELSE IF pat[k] = ")" THEN
            (IF d = 0 THEN -1 ELSE ParenDepth(pat, k + 1, d - 1))
    ELSE ParenDepth(pat, k + 1, d)

\* re.compile raises re.error ("missing ), unterminated subpattern", ...)
re_error(pat) == ParenDepth(pat, 1, 0) # 0

\* match pat[k..] against s at position p; the position after the match,
\* or 0 when there is none
RECURSIVE MatchHere(_, _, _, _, _)
MatchHere(pat, k, s, p, ic) ==
    IF k > Len(pat) THEN p
    ELSE IF pat[k] = "\\" THEN
        (IF p <= Len(s) /\ CharEq(pat[k + 1], s[p], ic)
            THEN MatchHere(pat, k + 2, s, p + 1, ic) ELSE 0)
    ELSE IF pat[k] \in {"(", ")"} THEN MatchHere(pat, k + 1, s, p, ic)
    ELSE IF pat[k] = "^" THEN
        (IF p = 1 THEN MatchHere(pat, k + 1, s, p, ic) ELSE 0)
    ELSE IF pat[k] = "." THEN
        (IF p <= Len(s) /\ s[p] # "\n"
            THEN MatchHere(pat, k + 1, s, p + 1, ic) ELSE 0)
    ELSE
        (IF p <= Len(s) /\ CharEq(pat[k], s[p], ic)
            THEN MatchHere(pat, k + 1, s, p + 1, ic) ELSE 0)

\* re.search(pat, s, flags) on a pattern that compiles: is there a match
re_search(pat, s, ic) ==
    \E p \in 1..(Len(s) + 1) : MatchHere(pat, 1, s, p, ic) # 0

\* re.sub(pat, YELLOW \1 RESET, s, flags) from position p on, where group 1
\* encloses the whole pattern: leftmost non-overlapping matches are wrapped
RECURSIVE re_sub(_, _, _, _)
re_sub(pat, s, p, ic) ==
    IF p > Len(s) THEN <<>>
    ELSE LET e == MatchHere(pat, 1, s, p, ic) IN
         IF e > p
            THEN COLOR_YELLOW \o SubSeq(s, p, e - 1) \o COLOR_RESET
                 \o re_sub(pat, s, e, ic)
            ELSE <<s[p]>> \o re_sub(pat, s, p + 1, ic)

\* Highlight with the keyword compiled as it is, without re.escape
HighlightUnescaped(kw, l, ic) == re_sub(<<"(">> \o kw \o <<")">>, l, 1, ic)

\* the four re.sub calls of stream_logs
Highlight(kw, l, ic) == re_sub(<<"(">> \o re_escape(kw) \o <<")">>, l, 1, ic)

\* the date looked for anywhere in the line, as date_pattern.search would
IsNewLogEntryAnywhere(l) ==
    \E o \in 0..Len(l) :
        /\ Len(l) >= o + 10
        /\ \A i \in {1, 2, 3, 4, 6, 7, 9, 10} : l[o + i] \in Digits
        /\ l[o + 5] = "-" /\ l[o + 8] = "-"

\* date_pattern.match(line): ^\d{4}-\d{2}-\d{2}
IsNewLogEntry(l) ==
    /\ Len(l) >= 10
    /\ \A i \in {1, 2, 3, 4, 6, 7, 9, 10} : l[i] \in Digits
    /\ l[5] = "-" /\ l[8] = "-"

-----------------------------------------------------------------------------
(* The loop body of stream_logs, on the record of the filter's state *)

State == [previous_line |-> previous_line,
          previous_line_matches |-> previous_line_matches,
          highlighted_line |-> highlighted_line,
          output |-> output,
          origin |-> origin,
          previous_idx |-> previous_idx]

\* print(highlighted_line, end='') of the buffered line
PrintPrevious(st, kw, ic) ==
    LET h == Highlight(kw, st.previous_line, ic) IN
    [st EXCEPT !.highlighted_line = h,
               !.output = Append(@, h),
               !.origin = Append(@, st.previous_idx)]

\* print(highlighted_line, end='') of the current line
PrintCurrent(st, kw, ic, l, idx) ==
    LET h == Highlight(kw, l, ic) IN
    [st EXCEPT !.highlighted_line = h,
               !.output = Append(@, h),
               !.origin = Append(@, idx)]

\* PassThrough by print(line), which adds a terminator of its own
PassThroughExtraNewline(st, l, idx) ==
    [st EXCEPT !.output = Append(@, l \o <<"\n">>), !.origin = Append(@, idx)]

\* print(line, end='') when no keyword is given
PassThrough(st, l, idx) ==
    [st EXCEPT !.output = Append(@, l), !.origin = Append(@, idx)]

\* a new entry begins while a line is buffered: print it if it matched, drop it
FlushPrevious(st, kw, ic, is_new) ==
    IF is_new /\ st.previous_line # <<>>
    THEN LET s1 == IF st.previous_line_matches
                      THEN PrintPrevious(st, kw, ic) ELSE st
         IN [s1 EXCEPT !.previous_line = <<>>,
                       !.previous_line_matches = FALSE,
                       !.previous_idx = 0]
    ELSE st

\* the header line is buffered with its own match result
NewEntry(st, l, idx, matches) ==
    [st EXCEPT !.previous_line = l,
               !.previous_line_matches = matches,
               !.previous_idx = idx]

\* Continuation that leaves the buffered line in place after printing it
ContinuationKeepsBuffer(st, kw, ic, l, idx, matches) ==
    IF st.previous_line_matches \/ matches
    THEN LET s1 == IF st.previous_line # <<>>
                      THEN PrintPrevious(st, kw, ic) ELSE st
         IN [PrintCurrent(s1, kw, ic, l, idx) EXCEPT !.previous_line_matches = TRUE]
    ELSE st

\* Continuation that prints the current line before the buffered line
ContinuationCurrentFirst(st, kw, ic, l, idx, matches) ==
    IF st.previous_line_matches \/ matches
    THEN LET s1 == PrintCurrent(st, kw, ic, l, idx)
             s2 == IF st.previous_line # <<>>
                      THEN [PrintPrevious(s1, kw, ic)
                                EXCEPT !.previous_line = <<>>, !.previous_idx = 0]
                      ELSE s1
         IN [s2 EXCEPT !.previous_line_matches = TRUE]
    ELSE st

\* a line that does not start with a date
Continuation(st, kw, ic, l, idx, matches) ==
    IF st.previous_line_matches \/ matches
    THEN LET s1 == IF st.previous_line # <<>>
                      THEN [PrintPrevious(st, kw, ic)
                                EXCEPT !.previous_line = <<>>, !.previous_idx = 0]
                      ELSE st
         IN [PrintCurrent(s1, kw, ic, l, idx) EXCEPT !.previous_line_matches = TRUE]
    ELSE st

\* after the loop: the last buffered line
FinalFlush(st, kw, ic) ==
    IF st.previous_line # <<>> /\ st.previous_line_matches
    THEN PrintPrevious(st, kw, ic) ELSE st

Commit(st) ==
    /\ previous_line' = st.previous_line
    /\ previous_line_matches' = st.previous_line_matches
    /\ highlighted_line' = st.highlighted_line
    /\ output' = st.output
    /\ origin' = st.origin
    /\ previous_idx' = st.previous_idx

-----------------------------------------------------------------------------
(* find_service_name: the listing of the remote services and the choice of *)
(* the one the partial name stands for                                     *)

NoExit == -1

Whitespace == {" ", "\n", "\t", "\r"}

RECURSIVE lstrip(_)
lstrip(s) ==
    IF s # <<>> /\ Head(s) \in Whitespace THEN lstrip(Tail(s)) ELSE s

RECURSIVE rstrip(_)
rstrip(s) ==
    IF s # <<>> /\ s[Len(s)] \in Whitespace
    THEN rstrip(SubSeq(s, 1, Len(s) - 1)) ELSE s

\* str.strip()
strip(s) == rstrip(lstrip(s))

\* str.split('\n'): the pieces between the newlines, [''] for ''
RECURSIVE split(_)
split(s) ==
    IF \A i \in 1..Len(s) : s[i] # "\n" THEN <<s>>
    ELSE LET i == CHOOSE i \in 1..Len(s) :
                      /\ s[i] = "\n"
                      /\ \A j \in 1..(i - 1) : s[j] # "\n"
         IN <<SubSeq(s, 1, i - 1)>> \o split(SubSeq(s, i + 1, Len(s)))

\* partial_name in name
Contains(sub, s) ==
    \E p \in 1..(Len(s) - Len(sub) + 1) : SubSeq(s, p, p + Len(sub) - 1) = sub

\* docker service ls --format '{{.Name}}': one name per line
RECURSIVE DockerOutput(_)
DockerOutput(names) ==
    IF names = <<>> THEN <<>>
    ELSE Head(names) \o <<"\n">> \o DockerOutput(Tail(names))

\* FindIn that takes the first of several matching names
FindInFirstMatch(res, partial) ==
    LET service_names == split(strip(res))
        matches == SelectSeq(service_names, LAMBDA name : Contains(partial, name))
    IN IF Len(matches) = 0
       THEN [exit |-> 1, name |-> <<>>]
       ELSE [exit |-> NoExit, name |-> matches[1]]

\* the try block of find_service_name after check_output has returned:
\* the status it exits with, or NoExit and the name it returns
FindIn(res, partial) ==
    LET service_names == split(strip(res))
        matches == SelectSeq(service_names, LAMBDA name : Contains(partial, name))
    IN IF Len(matches) = 0
       THEN [exit |-> 1, name |-> <<>>]
       ELSE IF Len(matches) > 1
       THEN [exit |-> 1, name |-> <<>>]
       ELSE [exit |-> NoExit, name |-> matches[1]]

\* main's variables once stream_logs runs: one service, named in full
AfterResolution ==
    /\ services = << <<"a">> >>
    /\ partial_name = <<"a">>
    /\ ssh_outcome = "ok"
    /\ result = <<"a", "\n">>
    /\ full_service_name = <<"a">>
    /\ exit_status = NoExit
    /\ ssh_calls = 2

-----------------------------------------------------------------------------
(* The stream: the lines and keywords of the runs *)

DATE == <<"2", "0", "2", "4", "-", "0", "1", "-", "0", "1">>

Bodies == { <<"a", "b">>, <<"x">>, <<"a", "A", "b">>, <<"^", "a">> }

\* header lines, continuation lines, and a last line without terminator
Lines == {DATE \o <<" ">> \o b \o <<"\n">> : b \in Bodies}
         \cup {b \o <<"\n">> : b \in Bodies}
         \cup {<<"a", "b">>}

Keywords == { <<>>, <<"a", "b">>, <<"a", ".", "b">>, <<"^", "a">>, <<"(">> }

ReturnCodes == {0, 1, 130}

EndsWithNewline(l) == l # <<>> /\ l[Len(l)] = "\n"

Init ==
    /\ keyword \in Keywords
    /\ ignore_case \in BOOLEAN
    /\ previous_line = <<>>
    /\ previous_line_matches = FALSE
    /\ line = <<>>
    /\ is_new_log_entry = FALSE
    /\ current_line_matches = FALSE
    /\ highlighted_line = <<>>
    /\ input = <<>>
    /\ output = <<>>
    /\ origin = <<>>
    /\ previous_idx = 0
    /\ notices = <<>>
    /\ pc = "loop"
    /\ AfterResolution

\* one iteration of `for line in iter(process.stdout.readline, '')`
ReadLine(l) ==
    /\ pc = "loop"
    /\ Len(input) < MaxLines
    /\ IF input = <<>> THEN TRUE ELSE EndsWithNewline(input[Len(input)])
    /\ input' = Append(input, l)
    /\ line' = l
    /\ is_new_log_entry' = IsNewLogEntry(l)
    /\ LET idx == Len(input) + 1
           is_new == IsNewLogEntry(l)
       IN IF keyword = <<>>
          THEN /\ Commit(PassThrough(State, l, idx))
               /\ UNCHANGED <<current_line_matches, notices, pc>>
          ELSE LET s1 == FlushPrevious(State, keyword, ignore_case, is_new)
               IN IF re_error(keyword)
                  THEN /\ Commit(s1)
                       /\ notices' = Append(notices, "An unexpected error occurred")
                       /\ pc' = "error"
                       /\ UNCHANGED current_line_matches
                  ELSE LET matches == re_search(keyword, l, ignore_case)
                       IN /\ current_line_matches' = matches
                          /\ Commit(IF is_new
                                       THEN NewEntry(s1, l, idx, matches)
                                       ELSE Continuation(s1, keyword, ignore_case,
                                                         l, idx, matches))
                          /\ UNCHANGED <<notices, pc>>
    /\ UNCHANGED <<keyword, ignore_case>>
    /\ UNCHANGED mainvars

\* readline returns '': the loop ends, the last buffered line is handled,
\* and the exit status of ssh is looked at
EndOfStream ==
    /\ pc = "loop"
    /\ Commit(FinalFlush(State, keyword, ignore_case))
    /\ \E returncode \in ReturnCodes, killed \in BOOLEAN :
          notices' = IF returncode # 0 /\ ~killed /\ returncode # 130
                        THEN Append(notices, "Error streaming logs")
                        ELSE notices
    /\ pc' = "done"
    /\ UNCHANGED <<keyword, ignore_case, line, is_new_log_entry,
                   current_line_matches, input>>
    /\ UNCHANGED mainvars

\* KeyboardInterrupt while the loop waits for or handles a line
Interrupt ==
    /\ pc = "loop"
    /\ notices' = Append(notices, "Exiting log stream.")
    /\ pc' = "interrupted"
    /\ UNCHANGED <<keyword, ignore_case, previous_line, previous_line_matches,
                   line, is_new_log_entry, current_line_matches,
                   highlighted_line, input, output, origin, previous_idx>>
    /\ UNCHANGED mainvars

Next ==
    \/ \E l \in Lines : ReadLine(l)
    \/ EndOfStream
    \/ Interrupt

Spec == Init /\ [][Next]_vars

-----------------------------------------------------------------------------
(* The match test and the highlighter on their own, over all short         *)
(* keywords and lines                                                      *)

KwChars == {"a", "b", ".", "^", "("}
LineChars == {"a", "A", "b", ".", "\n"}

SeqsUpTo(S, n) == UNION {[1..k -> S] : k \in 0..n}

FnKeywords == SeqsUpTo(KwChars, MaxKwLen) \ {<<>>}
FnLines == SeqsUpTo(LineChars, MaxLineLen)

InitFn ==
    /\ keyword \in FnKeywords
    /\ ignore_case \in BOOLEAN
    /\ line \in FnLines
    /\ is_new_log_entry = FALSE
    /\ previous_line = <<>>
    /\ previous_line_matches = FALSE
    /\ current_line_matches = FALSE
    /\ highlighted_line = <<>>
    /\ input = <<>>
    /\ output = <<>>
    /\ origin = <<>>
    /\ previous_idx = 0
    /\ notices = <<>>
    /\ pc = "fn_start"
    /\ AfterResolution

\* current_line_matches = bool(re.search(keyword, line, regex_flags))
FnSearch ==
    /\ pc = "fn_start"
    /\ IF re_error(keyword)
          THEN /\ notices' = Append(notices, "An unexpected error occurred")
               /\ pc' = "fn_error"
               /\ UNCHANGED current_line_matches
          ELSE /\ current_line_matches' = re_search(keyword, line, ignore_case)
               /\ pc' = "fn_searched"
               /\ UNCHANGED notices
    /\ UNCHANGED <<keyword, ignore_case, previous_line, previous_line_matches,
                   line, is_new_log_entry, highlighted_line, input, output,
                   origin, previous_idx>>
    /\ UNCHANGED mainvars

\* highlighted_line = re.sub(f'({re.escape(keyword)})', ..., line, flags=regex_flags)
FnSub ==
    /\ pc \in {"fn_searched", "fn_error"}
    /\ highlighted_line' = Highlight(keyword, line, ignore_case)
    /\ pc' = "fn_done"
    /\ UNCHANGED <<keyword, ignore_case, previous_line, previous_line_matches,
                   line, is_new_log_entry, current_line_matches, input, output,
                   origin, previous_idx, notices>>
    /\ UNCHANGED mainvars

NextFn == FnSearch \/ FnSub

SpecFn == InitFn /\ [][NextFn]_vars

-----------------------------------------------------------------------------
(* The classification of a line on its own, over all lines of digits,      *)
(* hyphens and another character, with and without a leading character     *)

ClsChars == {"9", "-", "x"}

ClsLines == {pad \o body : pad \in {<<>>, <<"x">>},
                           body \in SeqsUpTo(ClsChars, MaxClsLen)}

InitCls ==
    /\ keyword = <<>>
    /\ ignore_case = FALSE
    /\ line \in ClsLines
    /\ is_new_log_entry = FALSE
    /\ previous_line = <<>>
    /\ previous_line_matches = FALSE
    /\ current_line_matches = FALSE
    /\ highlighted_line = <<>>
    /\ input = <<>>
    /\ output = <<>>
    /\ origin = <<>>
    /\ previous_idx = 0
    /\ notices = <<>>
    /\ pc = "cls_start"
    /\ AfterResolution

\* is_new_log_entry = bool(date_pattern.match(line))
Classify ==
    /\ pc = "cls_start"
    /\ is_new_log_entry' = IsNewLogEntry(line)
    /\ pc' = "cls_done"
    /\ UNCHANGED <<keyword, ignore_case, previous_line, previous_line_matches,
                   line, current_line_matches, highlighted_line, input, output,
                   origin, previous_idx, notices>>
    /\ UNCHANGED mainvars

NextCls == Classify

SpecCls == InitCls /\ [][NextCls]_vars

-----------------------------------------------------------------------------
(* main: the service is resolved on the remote host, then its logs stream  *)

ServiceChars == {"a", "b"}

\* the names a service of the swarm can have
ServiceNames == { <<"a">>, <<"b">>, <<"a", "b">> }

\* the swarms: up to MaxServices services, no two of the same name
Swarms ==
    {sw \in SeqsUpTo(ServiceNames, MaxServices) :
        \A i, j \in 1..Len(sw) : sw[i] = sw[j] => i = j}

\* the service argument; argparse can hand over an empty string
PartialNames == SeqsUpTo(ServiceChars, 2)

SshOutcomes == {"ok", "CalledProcessError", "FileNotFoundError"}

InitMain ==
    /\ keyword \in {<<>>, <<"a", "b">>}
    /\ ignore_case = FALSE
    /\ previous_line = <<>>
    /\ previous_line_matches = FALSE
    /\ line = <<>>
    /\ is_new_log_entry = FALSE
    /\ current_line_matches = FALSE
    /\ highlighted_line = <<>>
    /\ input = <<>>
    /\ output = <<>>
    /\ origin = <<>>
    /\ previous_idx = 0
    /\ notices = <<>>
    /\ pc = "main"
    /\ services \in Swarms
    /\ partial_name \in PartialNames
    /\ ssh_outcome = "none"
    /\ result = <<>>
    /\ full_service_name = <<>>
    /\ exit_status = NoExit
    /\ ssh_calls = 0

streamvars == <<keyword, ignore_case, previous_line, previous_line_matches, line,
                is_new_log_entry, current_line_matches, highlighted_line, input,
                output, origin, previous_idx>>

\* if not service: parser.error(...), which exits with status 2
ParseArgs ==
    /\ pc = "main"
    /\ IF partial_name = <<>>
          THEN /\ notices' = Append(notices, "The service name is required.")
               /\ exit_status' = 2
               /\ pc' = "exit"
          ELSE /\ pc' = "find"
               /\ UNCHANGED <<notices, exit_status>>
    /\ UNCHANGED <<services, partial_name, ssh_outcome, result,
                   full_service_name, ssh_calls>>
    /\ UNCHANGED streamvars

\* full_service_name = find_service_name(ssh_target, service)
FindServiceName ==
    /\ pc = "find"
    /\ ssh_calls' = ssh_calls + 1
    /\ \E o \in SshOutcomes :
          /\ ssh_outcome' = o
          /\ IF o = "ok"
                THEN LET res == DockerOutput(services)
                         r == FindIn(res, partial_name)
                     IN /\ result' = res
                        /\ full_service_name' = r.name
                        /\ exit_status' = r.exit
                        /\ pc' = IF r.exit = NoExit THEN "found" ELSE "exit"
                        /\ notices' = IF r.exit = NoExit THEN notices
                                      ELSE Append(notices, "Error: service")
                ELSE /\ notices' = Append(notices, "Error: ssh")
                     /\ exit_status' = 1
                     /\ pc' = "exit"
                     /\ UNCHANGED <<result, full_service_name>>
    /\ UNCHANGED <<services, partial_name>>
    /\ UNCHANGED streamvars

\* the banner, then stream_logs up to its loop: Popen starts ssh, or raises
\* and the error is reported
StartStreaming ==
    /\ pc = "found"
    /\ \E started \in BOOLEAN :
          IF started
             THEN /\ ssh_calls' = ssh_calls + 1
                  /\ notices' = Append(notices, "--- Streaming logs for service")
                  /\ pc' = "loop"
             ELSE /\ notices' = notices
                               \o <<"--- Streaming logs for service",
                                    "An unexpected error occurred">>
                  /\ pc' = "error"
                  /\ UNCHANGED ssh_calls
    /\ UNCHANGED <<services, partial_name, ssh_outcome, result,
                   full_service_name, exit_status>>
    /\ UNCHANGED streamvars

NextMain ==
    \/ ParseArgs
    \/ FindServiceName
    \/ StartStreaming
    \/ \E l \in Lines : ReadLine(l)
    \/ EndOfStream
    \/ Interrupt

SpecMain == InitMain /\ [][NextMain]_vars

-----------------------------------------------------------------------------
(* Vocabulary of the properties *)

KeywordMode == keyword # <<>>

\* the keyword occurs in l at position p, character by character
LiteralAt(kw, l, p, ic) ==
    /\ p + Len(kw) - 1 <= Len(l)
    /\ \A k \in 1..Len(kw) : CharEq(kw[k], l[p + k - 1], ic)

\* lineMatches: the keyword occurs in the line as a literal substring
lineMatches(l, kw, ic) == \E p \in 1..Len(l) : LiteralAt(kw, l, p, ic)

\* the i-th line read contains the keyword
Matches(i) == lineMatches(input[i], keyword, ignore_case)

\* the i-th line read contains the keyword and the match test says so too
MatchesBothWays(i) ==
    /\ Matches(i)
    /\ ~re_error(keyword)
    /\ re_search(keyword, input[i], ignore_case)

IsHeader(i) == IsNewLogEntry(input[i])

\* the header line of the entry the i-th line belongs to, 0 before any header
EntryOf(i) ==
    LET hs == {h \in 1..i : IsHeader(h)}
    IN IF hs = {} THEN 0 ELSE CHOOSE h \in hs : \A g \in hs : g <= h

SameEntry(i, j) == EntryOf(i) # 0 /\ EntryOf(i) = EntryOf(j)

Emitted(i) == \E k \in 1..Len(origin) : origin[k] = i

TimesEmitted(i) == Cardinality({k \in 1..Len(origin) : origin[k] = i})

\* s with every start marker and end marker removed
RECURSIVE StripMarkers(_)
StripMarkers(s) ==
    IF s = <<>> THEN <<>>
    ELSE IF Len(s) >= 5 /\ SubSeq(s, 1, 5) = COLOR_YELLOW
        THEN StripMarkers(SubSeq(s, 6, Len(s)))
    ELSE IF Len(s) >= 4 /\ SubSeq(s, 1, 4) = COLOR_RESET
        THEN StripMarkers(SubSeq(s, 5, Len(s)))
    ELSE <<Head(s)>> \o StripMarkers(Tail(s))

\* the line from position p on with each occurrence of the keyword, taken
\* left to right without overlap, between a start and an end marker
RECURSIVE WrapOccurrences(_, _, _, _)
WrapOccurrences(kw, l, p, ic) ==
    IF p > Len(l) THEN <<>>
    ELSE IF LiteralAt(kw, l, p, ic)
        THEN COLOR_YELLOW \o SubSeq(l, p, p + Len(kw) - 1) \o COLOR_RESET
             \o WrapOccurrences(kw, l, p + Len(kw), ic)
    ELSE <<l[p]>> \o WrapOccurrences(kw, l, p + 1, ic)

\* a start marker, later followed by an end marker
HasSpan(s) ==
    \E p \in 1..Len(s), q \in 1..Len(s) :
        /\ p + 5 <= q /\ q + 3 <= Len(s)
        /\ SubSeq(s, p, p + 4) = COLOR_YELLOW
        /\ SubSeq(s, q, q + 3) = COLOR_RESET

-----------------------------------------------------------------------------
(* Properties of the stream filter *)

\* C1: when the stream has ended, every line of an entry (header line and
\* continuation lines) one of whose lines matches the keyword has been
\* emitted, the continuation lines before the first matching line included.
\* Stated for lines that match by substring and by the match test alike.
WholeEntryEmitted ==
    (pc = "done" /\ KeywordMode) =>
        \A i \in 1..Len(input), j \in 1..Len(input) :
            (SameEntry(i, j) /\ MatchesBothWays(j)) => Emitted(i)

\* C2: once a line of an entry has matched the keyword, every continuation
\* line of that entry read after it has been emitted.
StickyForward ==
    KeywordMode =>
        \A i \in 1..Len(input), j \in 1..Len(input) :
            (i < j /\ SameEntry(i, j) /\ ~IsHeader(j) /\ Matches(i)) => Emitted(j)

\* C3: without a keyword the output is the input, line for line with its
\* terminator and without markers, and nothing is buffered or flagged.
PassThroughExact ==
    (~KeywordMode /\ pc \in {"loop", "done", "interrupted", "error"}) =>
        /\ output = input
        /\ origin = [k \in 1..Len(input) |-> k]
        /\ previous_line = <<>>
        /\ previous_line_matches = FALSE
        /\ pc # "error"

\* a pass-through run of three lines, a header line among them, the last
\* one without terminator, read to the end of the stream
PassThroughRun ==
    /\ ~KeywordMode
    /\ pc = "done"
    /\ Len(input) = 3
    /\ IsHeader(2)
    /\ ~IsHeader(1)
    /\ ~EndsWithNewline(input[3])

\* C4: when the stream has ended with a header line still buffered, that
\* line has been emitted, highlighted, as the last output if it matched the
\* keyword, and has not been emitted if it did not.
StreamEndFlush ==
    (pc = "done" /\ KeywordMode /\ previous_line # <<>>) =>
        IF lineMatches(previous_line, keyword, ignore_case)
            THEN /\ TimesEmitted(previous_idx) = 1
                 /\ output # <<>>
                 /\ output[Len(output)]
                        = WrapOccurrences(keyword, previous_line, 1, ignore_case)
            ELSE ~Emitted(previous_idx)

\* C5: when the run was cancelled by an interrupt with a matched header line
\* buffered, that header line has been emitted.
CancellationFlush ==
    (pc = "interrupted" /\ KeywordMode /\ previous_line # <<>>
        /\ previous_line_matches
        /\ lineMatches(previous_line, keyword, ignore_case))
    => Emitted(previous_idx)

\* C6: no header line is ever emitted twice, and when the stream has ended
\* the header line of every entry with a matching line has been emitted
\* exactly once.
HeaderExactlyOnce ==
    KeywordMode =>
        \A h \in 1..Len(input) :
            IsHeader(h) =>
                /\ TimesEmitted(h) <= 1
                /\ (pc = "done" /\ \E j \in 1..Len(input) :
                                      SameEntry(h, j) /\ Matches(j))
                   => TimesEmitted(h) = 1

\* C7: when no line read matches the keyword, nothing has been emitted.
NonMatchDiscard ==
    (KeywordMode /\ \A i \in 1..Len(input) : ~Matches(i)) => output = <<>>

-----------------------------------------------------------------------------
(* What holds of the filter when "matches" is read as the result of its    *)
(* own match test, re.search(keyword, line, flags)                         *)

TestMatches(i) == ~re_error(keyword) /\ re_search(keyword, input[i], ignore_case)

StickyForwardOnMatchTest ==
    KeywordMode =>
        \A i \in 1..Len(input), j \in 1..Len(input) :
            (i < j /\ SameEntry(i, j) /\ ~IsHeader(j) /\ TestMatches(i))
                => Emitted(j)

StreamEndFlushOnFlag ==
    (pc = "done" /\ KeywordMode /\ previous_line # <<>>) =>
        (previous_line_matches <=> Emitted(previous_idx))

NoLineEmittedTwice == \A i \in 1..Len(input) : TimesEmitted(i) <= 1

HeaderOnceOnMatchTest ==
    (pc = "done" /\ KeywordMode) =>
        \A h \in 1..Len(input) :
            (IsHeader(h) /\ \E j \in 1..Len(input) :
                                SameEntry(h, j) /\ TestMatches(j))
                => TimesEmitted(h) = 1

DiscardOnMatchTest ==
    (KeywordMode /\ \A i \in 1..Len(input) : ~TestMatches(i)) => output = <<>>

-----------------------------------------------------------------------------
(* Properties of the match test and the highlighter *)

\* C8: the match test is true of a line exactly when the keyword occurs in
\* it as a literal substring, case folded under ignore_case.
LiteralMatching ==
    pc = "fn_searched" =>
        (current_line_matches <=> lineMatches(line, keyword, ignore_case))

\* C9: a line the match test reports as matching has at least one
\* start-marker/end-marker span in its highlighted form.
MatchedLineHasSpan ==
    (pc = "fn_done" /\ current_line_matches) => HasSpan(highlighted_line)

\* C10: the highlighter puts a start and an end marker around each
\* non-overlapping literal occurrence of the keyword and changes nothing
\* else: without the markers the result is the line, terminator included,
\* and a line without an occurrence comes back unchanged.
HighlightRoundTrip ==
    pc = "fn_done" =>
        /\ StripMarkers(highlighted_line) = line
        /\ highlighted_line = WrapOccurrences(keyword, line, 1, ignore_case)
        /\ ~lineMatches(line, keyword, ignore_case) => highlighted_line = line

\* a line with its terminator and two occurrences that differ in case from
\* the keyword's, highlighted under ignore_case
TwoSpansHighlighted ==
    /\ pc = "fn_done"
    /\ ignore_case
    /\ EndsWithNewline(line)
    /\ \E p \in 1..Len(line) : line[p] = "A"
    /\ Len(highlighted_line) = Len(line) + 18

-----------------------------------------------------------------------------
(* Properties of the line classifier *)

\* four digits, hyphen, two digits, hyphen, two digits
DateMask == <<"D", "D", "D", "D", "-", "D", "D", "-", "D", "D">>

\* the first 10 characters of l are digits where the mask has D and
\* hyphens where it has a hyphen
HeaderShape(l) ==
    /\ Len(l) >= Len(DateMask)
    /\ \A i \in 1..Len(DateMask) :
          IF DateMask[i] = "D" THEN l[i] \in Digits ELSE l[i] = DateMask[i]

\* C11: a line starts a new entry exactly when its first 10 characters are
\* four digits, a hyphen, two digits, a hyphen, two digits; no calendar
\* check is made, and the pattern at a later offset does not count.
HeaderClassification ==
    pc = "cls_done" => (is_new_log_entry <=> HeaderShape(line))

\* 9999-99-99 followed by another character is classified as a header
NoCalendarHeader ==
    /\ pc = "cls_done"
    /\ is_new_log_entry
    /\ Len(line) >= 10
    /\ SubSeq(line, 1, 10) = <<"9", "9", "9", "9", "-", "9", "9", "-", "9", "9">>

\* the date at offset one: classified as a continuation line
LaterOffsetNotHeader ==
    /\ pc = "cls_done"
    /\ ~is_new_log_entry
    /\ Len(line) >= 11
    /\ SubSeq(line, 2, 11) = <<"9", "9", "9", "9", "-", "9", "9", "-", "9", "9">>

-----------------------------------------------------------------------------
(* Properties of the stream filter, continued *)

\* on the i-th line read, substring test and match test give the same answer
TestsAgree(i) ==
    /\ ~re_error(keyword)
    /\ Matches(i) <=> re_search(keyword, input[i], ignore_case)

\* C12: a line without a date read before any header line is an entry of
\* its own: it has been emitted exactly when it matches the keyword itself,
\* whatever the headerless lines before it did.  Stated for runs on whose
\* lines substring test and match test agree.
HeaderlessOwnEntry ==
    KeywordMode =>
        \A i \in 1..Len(input) :
            (EntryOf(i) = 0 /\ \A k \in 1..i : TestsAgree(k))
                => (Emitted(i) <=> Matches(i))

\* a step that reads a line
ReadsLine == Len(input') = Len(input) + 1

\* C13: reading one line adds at most one line to the output.
AtMostOneEmittedPerLine ==
    [][ReadsLine => Len(output') <= Len(output) + 1]_vars

\* C13 as the filter has it: reading one line adds at most two lines to the
\* output; two only in keyword mode for a continuation line read while a
\* header line is buffered, and then the buffered header line followed by
\* the continuation line, both through the highlighter.
AtMostTwoEmittedPerLine ==
    [][ReadsLine =>
        /\ Len(output') <= Len(output) + 2
        /\ (~KeywordMode \/ IsNewLogEntry(line')) => Len(output') <= Len(output) + 1
        /\ Len(output') = Len(output) + 2 =>
              /\ previous_line # <<>>
              /\ previous_line' = <<>>
              /\ output' = output \o <<Highlight(keyword, previous_line, ignore_case),
                                       Highlight(keyword, line', ignore_case)>>
              /\ origin' = origin \o <<previous_idx, Len(input')>>
    ]_vars

\* a header line that was buffered, then emitted together with the
\* continuation line read after it
HeaderAndContinuationAtOnce ==
    /\ KeywordMode
    /\ pc = "loop"
    /\ Len(input) = 2
    /\ IsHeader(1)
    /\ ~IsHeader(2)
    /\ ~TestMatches(1)
    /\ origin = <<1, 2>>

\* the buffer holds a line
Buffered == previous_line # <<>>

\* the buffered line is the latest header line read, it has not been
\* emitted while the loop runs, and no line read after it has been emitted
BufferIsLatestHeader ==
    Buffered =>
        /\ previous_idx \in 1..Len(input)
        /\ previous_idx = EntryOf(Len(input))
        /\ previous_line = input[previous_idx]
        /\ pc # "done" => ~Emitted(previous_idx)
        /\ \A j \in 1..Len(input) : j > previous_idx => ~Emitted(j)

\* a line read earlier and not emitted can only be emitted later if it is
\* the buffered one: nothing else is kept
OnlyBufferedEmittedLater ==
    \A i \in 1..Len(input) :
        (~Emitted(i) /\ ~(Buffered /\ i = previous_idx)) => ~Emitted(i)'

\* the buffered line leaves the buffer only when a line is read that is a
\* header line, or a continuation line emitted together with it; and a
\* header line read always takes the buffer over
BufferEmptiedOnlyBy ==
    /\ (Buffered /\ previous_idx' # previous_idx) =>
          /\ ReadsLine
          /\ \/ IsNewLogEntry(line') /\ previous_idx' = Len(input')
             \/ /\ ~IsNewLogEntry(line')
                /\ ~Buffered'
                /\ origin' = origin \o <<previous_idx, Len(input')>>
    /\ (ReadsLine /\ KeywordMode /\ pc' = "loop" /\ IsNewLogEntry(line')) =>
          previous_idx' = Len(input')
    /\ (pc = "loop" /\ pc' = "done" /\ Buffered) =>
          \/ output' = output
          \/ origin' = Append(origin, previous_idx)

\* C14: at most one line that is not yet emitted is kept; it is the latest
\* header line read, none of whose continuation lines has been emitted; it
\* leaves the buffer when the next header line is read, when a continuation
\* line is emitted with it, or at the end of the stream.
LookaheadOfOne ==
    /\ []BufferIsLatestHeader
    /\ [][OnlyBufferedEmittedLater /\ BufferEmptiedOnlyBy]_vars

\* the second header line is buffered: the first one was flushed when it
\* arrived, and a continuation line after it was discarded
SecondHeaderBuffered ==
    /\ KeywordMode
    /\ pc = "loop"
    /\ Len(input) = 3
    /\ Buffered
    /\ previous_idx = 2
    /\ Emitted(1)
    /\ ~IsHeader(3)

\* C15: whatever the keyword, regular-expression characters included, no
\* line read makes classification, matching or highlighting raise an error,
\* and the lines after it are still processed.
NoErrorOnText ==
    /\ pc # "error"
    /\ \A k \in 1..Len(notices) : notices[k] # "An unexpected error occurred"

\* the entry of a line: the header line and its continuation lines, or the
\* line alone when no header line came before it
InEntry(i, j) == IF EntryOf(i) = 0 THEN i = j ELSE EntryOf(i) = EntryOf(j)

\* the lines emitted by a step
NewlyEmitted == {origin'[k] : k \in (Len(origin) + 1)..Len(origin')}

\* C16: every line emitted belongs to an entry one of whose lines, among
\* those read up to then, matches the keyword; a match in one entry never
\* makes a line of a later entry come out.
EmittedOnlyFromMatchedEntry ==
    [][KeywordMode =>
        \A i \in NewlyEmitted :
            \E j \in 1..Len(input') :
                InEntry(i, j)' /\ lineMatches(input'[j], keyword, ignore_case)
    ]_vars

\* C17: when the stream has ended normally every line that matches the
\* keyword has been emitted; while it runs, a matching continuation line is
\* emitted as soon as it is read and a matching header line once another
\* line has been read after it.
MatchingLinesEmitted ==
    (KeywordMode /\ pc \in {"loop", "done"}) =>
        \A i \in 1..Len(input) :
            (Matches(i) /\ (~IsHeader(i) \/ i < Len(input) \/ pc = "done"))
                => Emitted(i)

\* C18: in keyword mode the output without its markers is a subsequence of
\* the input in arrival order: each emitted line is a line read, none comes
\* out twice, and the lines come out in the order they were read, a header
\* line before its continuation lines and after the lines of earlier entries.
OrderPreserved ==
    KeywordMode =>
        /\ Len(origin) = Len(output)
        /\ \A k \in 1..Len(output) :
              /\ origin[k] \in 1..Len(input)
              /\ StripMarkers(output[k]) = input[origin[k]]
        /\ \A k \in 1..Len(origin), m \in 1..Len(origin) :
              k < m => origin[k] < origin[m]

\* a header line flushed by a continuation line, a line discarded, and a
\* highlighted line emitted after it
SubsequenceWithGap ==
    /\ KeywordMode
    /\ Len(input) = 3
    /\ origin = <<1, 3>>
    /\ IsHeader(1)
    /\ output[2] # input[3]
    /\ pc = "done"

-----------------------------------------------------------------------------
(* What holds of entries with a header line when "matches" is read as the  *)
(* result of the filter's own match test                                   *)

EntryIsolationOnMatchTest ==
    [][KeywordMode =>
        \A i \in NewlyEmitted :
            EntryOf(i)' # 0 =>
                \E j \in 1..Len(input') :
                    EntryOf(j)' = EntryOf(i)'
                    /\ re_search(keyword, input'[j], ignore_case)
    ]_vars

MatchTestLinesEmitted ==
    (KeywordMode /\ pc \in {"loop", "done"}) =>
        \A i \in 1..Len(input) :
            (TestMatches(i) /\ (~IsHeader(i) \/ i < Len(input) \/ pc = "done"))
                => Emitted(i)

-----------------------------------------------------------------------------
(* Service resolution *)

\* the remote service names that contain the partial name as a substring
Containing ==
    {i \in 1..Len(services) :
        \E p \in 1..(Len(services[i]) + 1) :
            LiteralAt(partial_name, services[i], p, FALSE)}

\* find_service_name has returned a name to main
Returned == pc \in {"found", "loop", "done", "interrupted", "error"}

\* find_service_name has run the listing command
Listed == ssh_outcome # "none"

NoLogStreamed == input = <<>> /\ output = <<>>

\* C19: a service name is returned, and streaming starts, only when the
\* listing succeeded and exactly one remote service name contains the partial
\* name, and that name is the one returned; when the listing failed, the
\* transport is missing, or no name or several names contain the partial
\* name, the process has exited with status 1 after a single ssh call, with
\* no log line read or printed, and takes no further step
ServiceResolution ==
    /\ [](/\ Returned =>
                /\ ssh_outcome = "ok"
                /\ Cardinality(Containing) = 1
                /\ \A i \in Containing : full_service_name = services[i]
          /\ Listed /\ (ssh_outcome # "ok" \/ Cardinality(Containing) # 1) =>
                /\ pc = "exit"
                /\ exit_status = 1
                /\ ssh_calls = 1
                /\ NoLogStreamed
          /\ pc = "exit" => NoLogStreamed /\ ssh_calls <= 1)
    /\ [][pc # "exit"]_vars

\* the listing succeeded and two names contain the partial name: exit 1
AmbiguousExit ==
    /\ pc = "exit"
    /\ exit_status = 1
    /\ ssh_outcome = "ok"
    /\ Cardinality(Containing) = 2

\* one of two listed names contains the partial name, and its logs stream
UniqueServiceStreams ==
    /\ pc = "loop"
    /\ Len(services) = 2
    /\ Cardinality(Containing) = 1
    /\ output # <<>>

\* no listed name contains the partial name: exit 1
NoMatchExit ==
    /\ pc = "exit"
    /\ exit_status = 1
    /\ ssh_outcome = "ok"
    /\ services # <<>>
    /\ Containing = {}

\* the listing command failed or ssh was not found although one name matches
TransportExit ==
    /\ pc = "exit"
    /\ ssh_outcome \in {"CalledProcessError", "FileNotFoundError"}
    /\ Cardinality(Containing) = 1

====
